---- MODULE Spec2Model ----
(***************************************************************************)
(* Model of build_extra/rust/get_rust_ldflags.py.                          *)
(*                                                                         *)
(* One process of the script is modelled from its entry into main() to its *)
(* exit, together with the rustc subprocess an Orchestrator run spawns and *)
(* the temp file the two share.  A string is a sequence of one-character   *)
(* strings, so that endswith, startswith, upper, join and split are        *)
(* computed character by character as Python computes them (Python 2 str   *)
(* semantics, the language the script is written in).                      *)
(***************************************************************************)
EXTENDS Integers, Sequences, FiniteSets, TLC

\* ------------------------------------------------------------------ bounds
\* Longest raw argument list the filter loop is run on by itself.
MaxArgs == 3
\* Longest linker command line rustc (or a caller) passes to the script.
MaxLineArgs == 2
\* How many times one rustc run may invoke its "linker".
MaxLinkerCalls == 1

\* ------------------------------------------------- string literals of main
NL == "\n"
EmptyStr == << >>
SufRlib == <<".", "r", "l", "i", "b">>
SufAllocator == <<".", "c", "r", "a", "t", "e", ".", "a", "l", "l", "o", "c", "a", "t", "o", "r", ".", "r", "c", "g", "u", ".", "o">>
SufLib == <<".", "l", "i", "b">>
PreMsvcrt == <<"m", "s", "v", "c", "r", "t">>
FlagSmallL == <<"-", "l">>
FlagBigL == <<"-", "L">>
StartGroup == <<"-", "W", "l", ",", "-", "-", "s", "t", "a", "r", "t", "-", "g", "r", "o", "u", "p">>
EndGroup == <<"-", "W", "l", ",", "-", "-", "e", "n", "d", "-", "g", "r", "o", "u", "p">>
PreLibpath == <<"/", "L", "I", "B", "P", "A", "T", "H", ":">>

\* ------------------------------------- arguments the linker line draws from
ArgStdRlib == <<"s", "t", "d", ".", "r", "l", "i", "b">>
ArgAllocator == <<"a", ".", "c", "r", "a", "t", "e", ".", "a", "l", "l", "o", "c", "a", "t", "o", "r", ".", "r", "c", "g", "u", ".", "o">>
ArgWs2Lib == <<"w", "s", "2", "_", "3", "2", ".", "l", "i", "b">>
ArgMsvcrtLib == <<"m", "s", "v", "c", "r", "t", ".", "l", "i", "b">>
ArgLibpathLower == <<"/", "l", "i", "b", "p", "a", "t", "h", ":", "c">>
ArgLibpathUpper == <<"/", "L", "I", "B", "P", "A", "T", "H", ":", "C">>
ArgFooO == <<"f", "o", "o", ".", "o">>

ArgUniverse ==
  { ArgStdRlib, ArgAllocator, ArgWs2Lib, ArgMsvcrtLib, FlagSmallL, FlagBigL,
    StartGroup, EndGroup, ArgLibpathLower, ArgFooO }

\* Every command line of at most MaxLineArgs arguments.
ArgLists == UNION { [1..n -> ArgUniverse] : n \in 0..MaxLineArgs }

\* Arguments of the raw lists the loop is run on by itself: the above, the
\* other spelling of the search path and the empty string of an empty file.
RawArgUniverse == ArgUniverse \cup { ArgLibpathUpper, EmptyStr }

\* Every command line of at most MaxArgs such arguments.
RawArgLists == UNION { [1..n -> RawArgUniverse] : n \in 0..MaxArgs }

\* ------------------------------------------------------ Python str methods
\* str.endswith(suffix)
EndsWith(s, suffix) ==
  /\ Len(s) >= Len(suffix)
  /\ SubSeq(s, Len(s) - Len(suffix) + 1, Len(s)) = suffix

\* str.startswith(prefix)
StartsWith(s, prefix) ==
  /\ Len(s) >= Len(prefix)
  /\ SubSeq(s, 1, Len(prefix)) = prefix

UpperChar(c) ==
  CASE c = "a" -> "A" [] c = "b" -> "B" [] c = "c" -> "C" [] c = "d" -> "D"
    [] c = "e" -> "E" [] c = "f" -> "F" [] c = "g" -> "G" [] c = "h" -> "H"
    [] c = "i" -> "I" [] c = "j" -> "J" [] c = "k" -> "K" [] c = "l" -> "L"
    [] c = "m" -> "M" [] c = "n" -> "N" [] c = "o" -> "O" [] c = "p" -> "P"
    [] c = "q" -> "Q" [] c = "r" -> "R" [] c = "s" -> "S" [] c = "t" -> "T"
    [] c = "u" -> "U" [] c = "v" -> "V" [] c = "w" -> "W" [] c = "x" -> "X"
    [] c = "y" -> "Y" [] c = "z" -> "Z" [] OTHER -> c

\* str.upper()
Upper(s) == [k \in 1..Len(s) |-> UpperChar(s[k])]

\* "\n".join(list)
RECURSIVE Join(_)
Join(list) ==
  IF Len(list) = 0 THEN EmptyStr
  ELSE IF Len(list) = 1 THEN list[1]
  ELSE list[1] \o <<NL>> \o Join(Tail(list))

\* Index of the first newline of s, 0 when it has none.
FirstNL(s) ==
  IF \E k \in 1..Len(s) : s[k] = NL
  THEN CHOOSE k \in 1..Len(s) : s[k] = NL /\ \A j \in 1..(k - 1) : s[j] # NL
  ELSE 0

\* What a write of s that fails part-way leaves behind: the bytes written
\* before the error, a proper prefix of s.
ProperPrefixes(s) == { SubSeq(s, 1, n) : n \in 0..(Len(s) - 1) }

\* str.split("\n"): always at least one piece, the empty string included.
RECURSIVE Split(_)
Split(s) ==
  IF FirstNL(s) = 0 THEN <<s>>
  ELSE <<SubSeq(s, 1, FirstNL(s) - 1)>> \o Split(SubSeq(s, FirstNL(s) + 1, Len(s)))

\* ------------------------------------------------ the filter loop of main
\* The body with the ".rlib" branch dropping the argument.
FilterArg_DropRlib(arg, flag_value) ==
  IF flag_value
    THEN [include |-> TRUE, next_arg_is_flag_value |-> FALSE]
  ELSE IF EndsWith(arg, SufRlib)
    THEN [include |-> FALSE, next_arg_is_flag_value |-> FALSE]
  ELSE IF EndsWith(arg, SufAllocator)
    THEN [include |-> TRUE, next_arg_is_flag_value |-> FALSE]
  ELSE IF EndsWith(arg, SufLib) /\ ~StartsWith(arg, PreMsvcrt)
    THEN [include |-> TRUE, next_arg_is_flag_value |-> FALSE]
  ELSE IF arg = FlagSmallL \/ arg = FlagBigL
    THEN [include |-> TRUE, next_arg_is_flag_value |-> TRUE]
  ELSE IF arg = StartGroup \/ arg = EndGroup
    THEN [include |-> TRUE, next_arg_is_flag_value |-> FALSE]
  ELSE IF StartsWith(Upper(arg), PreLibpath)
    THEN [include |-> TRUE, next_arg_is_flag_value |-> FALSE]
  ELSE [include |-> FALSE, next_arg_is_flag_value |-> FALSE]

\* The body with the allocator-object branch dropping the argument.
FilterArg_DropAllocator(arg, flag_value) ==
  IF flag_value
    THEN [include |-> TRUE, next_arg_is_flag_value |-> FALSE]
  ELSE IF EndsWith(arg, SufRlib)
    THEN [include |-> TRUE, next_arg_is_flag_value |-> FALSE]
  ELSE IF EndsWith(arg, SufAllocator)
    THEN [include |-> FALSE, next_arg_is_flag_value |-> FALSE]
  ELSE IF EndsWith(arg, SufLib) /\ ~StartsWith(arg, PreMsvcrt)
    THEN [include |-> TRUE, next_arg_is_flag_value |-> FALSE]
  ELSE IF arg = FlagSmallL \/ arg = FlagBigL
    THEN [include |-> TRUE, next_arg_is_flag_value |-> TRUE]
  ELSE IF arg = StartGroup \/ arg = EndGroup
    THEN [include |-> TRUE, next_arg_is_flag_value |-> FALSE]
  ELSE IF StartsWith(Upper(arg), PreLibpath)
    THEN [include |-> TRUE, next_arg_is_flag_value |-> FALSE]
  ELSE [include |-> FALSE, next_arg_is_flag_value |-> FALSE]

\* The body without the msvcrt exclusion on ".lib".
FilterArg_KeepMsvcrt(arg, flag_value) ==
  IF flag_value
    THEN [include |-> TRUE, next_arg_is_flag_value |-> FALSE]
  ELSE IF EndsWith(arg, SufRlib)
    THEN [include |-> TRUE, next_arg_is_flag_value |-> FALSE]
  ELSE IF EndsWith(arg, SufAllocator)
    THEN [include |-> TRUE, next_arg_is_flag_value |-> FALSE]
  ELSE IF EndsWith(arg, SufLib)
    THEN [include |-> TRUE, next_arg_is_flag_value |-> FALSE]
  ELSE IF arg = FlagSmallL \/ arg = FlagBigL
    THEN [include |-> TRUE, next_arg_is_flag_value |-> TRUE]
  ELSE IF arg = StartGroup \/ arg = EndGroup
    THEN [include |-> TRUE, next_arg_is_flag_value |-> FALSE]
  ELSE IF StartsWith(Upper(arg), PreLibpath)
    THEN [include |-> TRUE, next_arg_is_flag_value |-> FALSE]
  ELSE [include |-> FALSE, next_arg_is_flag_value |-> FALSE]

\* The body with "-l"/"-L" forgetting to set the lookahead bit.
FilterArg_NoLookahead(arg, flag_value) ==
  IF flag_value
    THEN [include |-> TRUE, next_arg_is_flag_value |-> FALSE]
  ELSE IF EndsWith(arg, SufRlib)
    THEN [include |-> TRUE, next_arg_is_flag_value |-> FALSE]
  ELSE IF EndsWith(arg, SufAllocator)
    THEN [include |-> TRUE, next_arg_is_flag_value |-> FALSE]
  ELSE IF EndsWith(arg, SufLib) /\ ~StartsWith(arg, PreMsvcrt)
    THEN [include |-> TRUE, next_arg_is_flag_value |-> FALSE]
  ELSE IF arg = FlagSmallL \/ arg = FlagBigL
    THEN [include |-> TRUE, next_arg_is_flag_value |-> FALSE]
  ELSE IF arg = StartGroup \/ arg = EndGroup
    THEN [include |-> TRUE, next_arg_is_flag_value |-> FALSE]
  ELSE IF StartsWith(Upper(arg), PreLibpath)
    THEN [include |-> TRUE, next_arg_is_flag_value |-> FALSE]
  ELSE [include |-> FALSE, next_arg_is_flag_value |-> FALSE]

\* The body with "-l"/"-L" setting the lookahead bit but falling through to
\* the final else (the flag itself is not added).
FilterArg_FlagNotKept(arg, flag_value) ==
  IF flag_value
    THEN [include |-> TRUE, next_arg_is_flag_value |-> FALSE]
  ELSE IF EndsWith(arg, SufRlib)
    THEN [include |-> TRUE, next_arg_is_flag_value |-> FALSE]
  ELSE IF EndsWith(arg, SufAllocator)
    THEN [include |-> TRUE, next_arg_is_flag_value |-> FALSE]
  ELSE IF EndsWith(arg, SufLib) /\ ~StartsWith(arg, PreMsvcrt)
    THEN [include |-> TRUE, next_arg_is_flag_value |-> FALSE]
  ELSE IF arg = FlagSmallL \/ arg = FlagBigL
    THEN [include |-> FALSE, next_arg_is_flag_value |-> TRUE]
  ELSE IF arg = StartGroup \/ arg = EndGroup
    THEN [include |-> TRUE, next_arg_is_flag_value |-> FALSE]
  ELSE IF StartsWith(Upper(arg), PreLibpath)
    THEN [include |-> TRUE, next_arg_is_flag_value |-> FALSE]
  ELSE [include |-> FALSE, next_arg_is_flag_value |-> FALSE]

\* One pass through the if/elif chain of the loop body: whether arg is added
\* to ldflags (`pass` falls through to `ldflags += [arg]`, the final else
\* does `continue`) and the value of next_arg_is_flag_value afterwards.
FilterArg(arg, flag_value) ==
  IF flag_value
    THEN [include |-> TRUE, next_arg_is_flag_value |-> FALSE]
  ELSE IF EndsWith(arg, SufRlib)
    THEN [include |-> TRUE, next_arg_is_flag_value |-> FALSE]
  ELSE IF EndsWith(arg, SufAllocator)
    THEN [include |-> TRUE, next_arg_is_flag_value |-> FALSE]
  ELSE IF EndsWith(arg, SufLib) /\ ~StartsWith(arg, PreMsvcrt)
    THEN [include |-> TRUE, next_arg_is_flag_value |-> FALSE]
  ELSE IF arg = FlagSmallL \/ arg = FlagBigL
    THEN [include |-> TRUE, next_arg_is_flag_value |-> TRUE]
  ELSE IF arg = StartGroup \/ arg = EndGroup
    THEN [include |-> TRUE, next_arg_is_flag_value |-> FALSE]
  ELSE IF StartsWith(Upper(arg), PreLibpath)
    THEN [include |-> TRUE, next_arg_is_flag_value |-> FALSE]
  ELSE [include |-> FALSE, next_arg_is_flag_value |-> FALSE]

\* The whole loop run on a list: ldflags after the scan of list[k..], given
\* the lookahead bit before position k.
RECURSIVE FilterFrom(_, _, _)
FilterFrom(list, k, flag_value) ==
  IF k > Len(list) THEN << >>
  ELSE LET r == FilterArg(list[k], flag_value)
       IN (IF r.include THEN <<list[k]>> ELSE << >>)
            \o FilterFrom(list, k + 1, r.next_arg_is_flag_value)

\* ldflags for a raw argument list, the lookahead bit starting False.
Filter(list) == FilterFrom(list, 1, FALSE)

\* ------------------------------------------------------------------- state
VARIABLES
  mode,       \* "Capture" when ARGSFILE_PATH is set at entry, else "Orchestrator"
  argv,       \* sys.argv[1:] of this process
  link_line,  \* the linker command line rustc builds for these compiler arguments
  pc,         \* position of this process in main()
  raised,     \* the call whose exception is propagating, "none" when none is
  outcome,    \* "running", then "success" (exit 0) or "failure" (nonzero exit)
  rustc,      \* the subprocess: "none", "launch_failed", "running", "exit_zero", "exit_nonzero"
  spawns,     \* number of rustc subprocesses started
  linker_calls, \* times the running rustc has invoked the script as its linker
  file_exists,  \* a file exists at the argsfile path
  fd_linked,  \* the file at that path is the one mkstemp created and opened
  fd_open,    \* argsfile_fd is open in this process
  content,    \* bytes of the argsfile (Orchestrator: of the file argsfile_fd refers to)
  unlinks,    \* number of os.unlink calls made on the argsfile path
  args,       \* the raw argument list (unbound until read: << >>)
  ldflags,    \* the filtered flag list
  next_arg_is_flag_value,
  idx,        \* position of the for loop in args
  stdout      \* the bytes that have reached standard output

vars == <<mode, argv, link_line, pc, raised, outcome, rustc, spawns,
          linker_calls, file_exists, fd_linked, fd_open, content, unlinks,
          args, ldflags, next_arg_is_flag_value, idx, stdout>>

procVars == <<mode, argv, link_line>>
fileVars == <<file_exists, fd_linked, fd_open, content, unlinks>>
loopVars == <<args, ldflags, next_arg_is_flag_value, idx>>

Init ==
  /\ mode \in {"Orchestrator", "Capture"}
  /\ argv \in (IF mode = "Capture" THEN ArgLists ELSE { << >> })
  /\ link_line \in (IF mode = "Capture" THEN { << >> } ELSE ArgLists)
  /\ pc = "entry"
  /\ raised = "none"
  /\ outcome = "running"
  /\ rustc = "none"
  /\ spawns = 0
  /\ linker_calls = 0
  /\ file_exists \in (IF mode = "Capture" THEN BOOLEAN ELSE {FALSE})
  /\ fd_linked = TRUE
  /\ fd_open = FALSE
  /\ content = EmptyStr
  /\ unlinks = 0
  /\ args = << >>
  /\ ldflags = << >>
  /\ next_arg_is_flag_value = FALSE
  /\ idx = 1
  /\ stdout = EmptyStr

\* ---------------------------------------------------------- Capture role
\* main() with ARGSFILE_PATH set: capture_args writes "\n".join(sys.argv[1:])
\* to the file (mode "wb" creates or truncates it) and main returns None.
CaptureArgs ==
  /\ pc = "entry" /\ mode = "Capture"
  /\ file_exists' = TRUE
  /\ content' = Join(argv)
  /\ pc' = "done"
  /\ outcome' = "success"
  /\ UNCHANGED <<procVars, raised, rustc, spawns, linker_calls, fd_linked,
                 fd_open, unlinks, loopVars, stdout>>

\* capture_args raising: either open() fails and the file is untouched, or
\* open() has created or truncated the file and the write fails part-way,
\* leaving the bytes written before the error.  The exception leaves main.
CaptureArgsFail ==
  /\ pc = "entry" /\ mode = "Capture"
  /\ \/ file_exists' = file_exists /\ content' = content
     \/ \E written \in ProperPrefixes(Join(argv)) :
          file_exists' = TRUE /\ content' = written
  /\ raised' = "capture_args"
  /\ pc' = "done"
  /\ outcome' = "failure"
  /\ UNCHANGED <<procVars, rustc, spawns, linker_calls, fd_linked, fd_open,
                 unlinks, loopVars, stdout>>

\* ----------------------------------------------------- Orchestrator role
\* Environment preparation and tempfile.mkstemp(): a fresh empty file, open
\* in this process, its path exported as ARGSFILE_PATH.
Mkstemp ==
  /\ pc = "entry" /\ mode = "Orchestrator"
  /\ file_exists' = TRUE
  /\ fd_linked' = TRUE
  /\ fd_open' = TRUE
  /\ content' = EmptyStr
  /\ pc' = "spawn"
  /\ UNCHANGED <<procVars, raised, outcome, rustc, spawns, linker_calls,
                 unlinks, loopVars, stdout>>

\* The preparation raising before the try block is entered: KeyError from
\* os.environ["PATH"], or mkstemp itself.  No temp file exists and the
\* exception leaves main.
SetupFail ==
  /\ pc = "entry" /\ mode = "Orchestrator"
  /\ raised' = "setup"
  /\ pc' = "done"
  /\ outcome' = "failure"
  /\ UNCHANGED <<procVars, rustc, spawns, linker_calls, fileVars, loopVars,
                 stdout>>

\* subprocess.check_call starts rustc and blocks.
SpawnRustc ==
  /\ pc = "spawn"
  /\ spawns' = spawns + 1
  /\ rustc' = "running"
  /\ pc' = "wait"
  /\ UNCHANGED <<procVars, raised, outcome, linker_calls, fileVars, loopVars,
                 stdout>>

\* subprocess.check_call raises OSError: rustc could not be started, no
\* subprocess comes into being.
SpawnFail ==
  /\ pc = "spawn"
  /\ rustc' = "launch_failed"
  /\ raised' = "check_call"
  /\ pc' = "close"
  /\ UNCHANGED <<procVars, outcome, spawns, linker_calls, fileVars, loopVars,
                 stdout>>

\* The running rustc invokes the script as its linker with link_line as the
\* command line; that process finds ARGSFILE_PATH set and runs capture_args:
\* it fails in open() and leaves the file untouched, or open() creates or
\* truncates the file and the write puts the whole line there or fails
\* part-way.  A file open() creates anew is not the one argsfile_fd is on.
RustcInvokesLinker ==
  /\ rustc = "running"
  /\ linker_calls < MaxLinkerCalls
  /\ \/ UNCHANGED <<file_exists, fd_linked, content>>
     \/ /\ file_exists' = TRUE
        /\ fd_linked' = (fd_linked /\ file_exists)
        /\ IF fd_linked'
             THEN \E written \in ProperPrefixes(Join(link_line)) \cup {Join(link_line)} :
                    content' = written
             ELSE content' = content
  /\ linker_calls' = linker_calls + 1
  /\ UNCHANGED <<procVars, pc, raised, outcome, rustc, spawns, fd_open,
                 unlinks, loopVars, stdout>>

\* The running rustc (or a process it starts) removes the file at the
\* argsfile path; the bytes stay readable through argsfile_fd.
RustcRemovesArgsfile ==
  /\ rustc = "running"
  /\ file_exists
  /\ file_exists' = FALSE
  /\ fd_linked' = FALSE
  /\ UNCHANGED <<procVars, pc, raised, outcome, rustc, spawns, linker_calls,
                 fd_open, content, unlinks, loopVars, stdout>>

\* rustc runs to completion with some exit status.
RustcExit ==
  /\ rustc = "running"
  /\ \E status \in {"exit_zero", "exit_nonzero"} : rustc' = status
  /\ UNCHANGED <<procVars, pc, raised, outcome, spawns, linker_calls,
                 fileVars, loopVars, stdout>>

\* check_call returning without waiting for rustc (subprocess.Popen).
CheckCallReturn_NoWait ==
  /\ pc = "wait"
  /\ IF rustc = "exit_nonzero"
       THEN raised' = "check_call" /\ pc' = "close"
       ELSE raised' = raised /\ pc' = "read"
  /\ UNCHANGED <<procVars, outcome, rustc, spawns, linker_calls, fileVars,
                 loopVars, stdout>>

\* subprocess.check_call leaves its wait.  It returns normally once rustc has
\* exited with status zero; once rustc has exited with a nonzero status it
\* raises CalledProcessError, or, when the status is lost (waitpid fails with
\* ECHILD under an ignored SIGCHLD and the status is taken as 0), returns
\* normally as well.  An interrupt (KeyboardInterrupt) ends the wait with an
\* exception at any moment, rustc still running or not.
CheckCallReturn ==
  /\ pc = "wait"
  /\ \/ /\ rustc \in {"exit_zero", "exit_nonzero"}
        /\ raised' = raised /\ pc' = "read"
     \/ /\ rustc = "exit_nonzero"
        /\ raised' = "check_call" /\ pc' = "close"
     \/ /\ rustc \in {"running", "exit_zero", "exit_nonzero"}
        /\ raised' = "check_call" /\ pc' = "close"
  /\ UNCHANGED <<procVars, outcome, rustc, spawns, linker_calls, fileVars,
                 loopVars, stdout>>

\* os.fstat, os.read of the whole file through argsfile_fd, split on "\n".
ReadArgsfile ==
  /\ pc = "read"
  /\ args' = Split(content)
  /\ pc' = "close"
  /\ UNCHANGED <<procVars, raised, outcome, rustc, spawns, linker_calls,
                 fileVars, ldflags, next_arg_is_flag_value, idx, stdout>>

\* os.fstat or os.read raises.
ReadFail ==
  /\ pc = "read"
  /\ raised' = "read"
  /\ pc' = "close"
  /\ UNCHANGED <<procVars, outcome, rustc, spawns, linker_calls, fileVars,
                 loopVars, stdout>>

\* finally: os.close(argsfile_fd)
CloseFd ==
  /\ pc = "close"
  /\ fd_open' = FALSE
  /\ pc' = "unlink"
  /\ UNCHANGED <<procVars, raised, outcome, rustc, spawns, linker_calls,
                 file_exists, fd_linked, content, unlinks, loopVars, stdout>>

\* finally: os.close raises.  The rest of the finally block (os.unlink) is
\* skipped and the new exception leaves main; whether the descriptor was
\* released is up to the platform.
CloseFdFail ==
  /\ pc = "close"
  /\ fd_open' \in BOOLEAN
  /\ raised' = "close"
  /\ pc' = "done"
  /\ outcome' = "failure"
  /\ UNCHANGED <<procVars, rustc, spawns, linker_calls, file_exists,
                 fd_linked, content, unlinks, loopVars, stdout>>

\* finally: os.unlink(argsfile_path) removes the file at the path; a pending
\* exception then leaves main, otherwise execution continues with the loop.
Unlink ==
  /\ pc = "unlink"
  /\ file_exists
  /\ file_exists' = FALSE
  /\ fd_linked' = FALSE
  /\ content' = EmptyStr
  /\ unlinks' = unlinks + 1
  /\ IF raised # "none"
       THEN pc' = "done" /\ outcome' = "failure"
       ELSE pc' = "filter" /\ outcome' = outcome
  /\ UNCHANGED <<procVars, raised, rustc, spawns, linker_calls, fd_open,
                 loopVars, stdout>>

\* finally: os.unlink raises OSError (no file at the path any more, or one
\* that may not be removed).  The path is left as it is and the exception
\* leaves main: the loop and the write never run.
UnlinkFail ==
  /\ pc = "unlink"
  /\ unlinks' = unlinks + 1
  /\ raised' = "unlink"
  /\ pc' = "done"
  /\ outcome' = "failure"
  /\ UNCHANGED <<procVars, rustc, spawns, linker_calls, file_exists,
                 fd_linked, fd_open, content, loopVars, stdout>>

\* An iteration that puts a kept argument in front of ldflags.
FilterStep_Prepend ==
  /\ pc = "filter"
  /\ idx <= Len(args)
  /\ LET r == FilterArg(args[idx], next_arg_is_flag_value)
     IN /\ ldflags' = (IF r.include THEN <<args[idx]>> \o ldflags ELSE ldflags)
        /\ next_arg_is_flag_value' = r.next_arg_is_flag_value
  /\ idx' = idx + 1
  /\ UNCHANGED <<procVars, pc, raised, outcome, rustc, spawns, linker_calls,
                 fileVars, args, stdout>>

\* One iteration of `for arg in args`.
FilterStep ==
  /\ pc = "filter"
  /\ idx <= Len(args)
  /\ LET r == FilterArg(args[idx], next_arg_is_flag_value)
     IN /\ ldflags' = (IF r.include THEN Append(ldflags, args[idx]) ELSE ldflags)
        /\ next_arg_is_flag_value' = r.next_arg_is_flag_value
  /\ idx' = idx + 1
  /\ UNCHANGED <<procVars, pc, raised, outcome, rustc, spawns, linker_calls,
                 fileVars, args, stdout>>

\* The loop is exhausted: sys.stdout.write("\n".join(ldflags)) returns, main
\* returns None and sys.exit(None) ends the process with status 0.  The
\* stream may be buffered: the write returns whatever becomes of the bytes,
\* and a flush that fails at interpreter exit does not change the status.
\* All of the joined list, or only a proper prefix of it (nothing included),
\* has then reached standard output.
WriteStdout ==
  /\ pc = "filter"
  /\ idx > Len(args)
  /\ \E written \in ProperPrefixes(Join(ldflags)) \cup {Join(ldflags)} :
       stdout' = stdout \o written
  /\ pc' = "done"
  /\ outcome' = "success"
  /\ UNCHANGED <<procVars, raised, rustc, spawns, linker_calls, fileVars,
                 loopVars>>

\* sys.stdout.write raises part-way through a non-empty output (a write of
\* the empty string touches nothing and cannot fail): the bytes already
\* written are out, and the exception leaves main.
WriteStdoutFail ==
  /\ pc = "filter"
  /\ idx > Len(args)
  /\ \E written \in ProperPrefixes(Join(ldflags)) :
       stdout' = stdout \o written
  /\ raised' = "stdout_write"
  /\ pc' = "done"
  /\ outcome' = "failure"
  /\ UNCHANGED <<procVars, rustc, spawns, linker_calls, fileVars, loopVars>>

Next ==
  \/ CaptureArgs
  \/ CaptureArgsFail
  \/ Mkstemp
  \/ SetupFail
  \/ SpawnRustc
  \/ SpawnFail
  \/ RustcInvokesLinker
  \/ RustcRemovesArgsfile
  \/ RustcExit
  \/ CheckCallReturn
  \/ ReadArgsfile
  \/ ReadFail
  \/ CloseFd
  \/ CloseFdFail
  \/ Unlink
  \/ UnlinkFail
  \/ FilterStep
  \/ WriteStdout
  \/ WriteStdoutFail

Spec == Init /\ [][Next]_vars

\* ------------------------------------------------- the filter loop by itself
\* An Orchestrator run at the top of the loop, after rustc exited with zero,
\* the linker line was written in full and read back, and the cleanup went
\* through: the raw argument list is the split of the joined line.
InitFilter ==
  /\ mode = "Orchestrator"
  /\ argv = << >>
  /\ link_line \in RawArgLists
  /\ pc = "filter"
  /\ raised = "none"
  /\ outcome = "running"
  /\ rustc = "exit_zero"
  /\ spawns = 1
  /\ linker_calls = 1
  /\ file_exists = FALSE
  /\ fd_linked = FALSE
  /\ fd_open = FALSE
  /\ content = EmptyStr
  /\ unlinks = 1
  /\ args = Split(Join(link_line))
  /\ ldflags = << >>
  /\ next_arg_is_flag_value = FALSE
  /\ idx = 1
  /\ stdout = EmptyStr

NextFilter ==
  \/ FilterStep
  \/ WriteStdout
  \/ WriteStdoutFail

SpecFilter == InitFilter /\ [][NextFilter]_vars

TypeOK ==
  /\ mode \in {"Orchestrator", "Capture"}
  /\ pc \in {"entry", "spawn", "wait", "read", "close", "unlink", "filter", "done"}
  /\ outcome \in {"running", "success", "failure"}
  /\ rustc \in {"none", "launch_failed", "running", "exit_zero", "exit_nonzero"}
  /\ raised \in {"none", "capture_args", "setup", "check_call", "read", "close", "unlink",
                "stdout_write"}
  /\ file_exists \in BOOLEAN /\ fd_linked \in BOOLEAN /\ fd_open \in BOOLEAN
  /\ next_arg_is_flag_value \in BOOLEAN
  /\ spawns \in 0..1 /\ unlinks \in 0..1 /\ linker_calls \in 0..MaxLinkerCalls
  /\ idx \in 1..(Len(args) + 1)

\* ============================================================== properties
IsLibraryFlag(a) == a = FlagSmallL \/ a = FlagBigL

\* Position k of list is scanned as the value of the "-l"/"-L" before it.
RECURSIVE IsFlagValue(_, _)
IsFlagValue(list, k) ==
  /\ k > 1
  /\ IsLibraryFlag(list[k - 1])
  /\ ~IsFlagValue(list, k - 1)

\* sub is list with some elements removed.
RECURSIVE IsSubsequence(_, _)
IsSubsequence(sub, list) ==
  IF Len(sub) = 0 THEN TRUE
  ELSE IF Len(list) = 0 THEN FALSE
  ELSE IF Head(sub) = Head(list) THEN IsSubsequence(Tail(sub), Tail(list))
  ELSE IsSubsequence(sub, Tail(list))

\* The loop is about to process args[idx].
InLoop == pc = "filter" /\ idx <= Len(args)
\* The loop has run to its end.
Filtered == mode = "Orchestrator" /\ pc = "done" /\ outcome = "success"
Kept == ldflags' = Append(ldflags, args[idx])
Dropped == ldflags' = ldflags
RustcFinished == rustc \in {"launch_failed", "exit_zero", "exit_nonzero"}

\* The step-by-step loop and the recursive Filter compute the same list.
FilterAgrees == Filtered => ldflags = Filter(args)

\* ---------------------------------------------------------------------- C1
\* C1 as stated: no argument ending with ".rlib" is ever in the filtered
\* flag list.
C1_RlibNeverInOutput ==
  \A k \in 1..Len(ldflags) : ~EndsWith(ldflags[k], SufRlib)

\* C1 amended: an argument ending with ".rlib" is added to the filtered flag
\* list whenever the loop reaches it, at any position.
C1_RlibAlwaysKept ==
  [][InLoop /\ EndsWith(args[idx], SufRlib) => Kept]_vars

C1_Witness ==
  /\ Filtered
  /\ args = <<ArgFooO, ArgStdRlib>>
  /\ ldflags = <<ArgStdRlib>>

\* ---------------------------------------------------------------------- C2
\* C2 as stated: every "-l"/"-L" is kept, and the argument after any "-l"/"-L"
\* is added to the output right behind it, also when that "-l"/"-L" itself
\* directly follows another one.
C2_EveryFlagKeepsItsValue ==
  [][InLoop =>
       /\ IsLibraryFlag(args[idx]) => Kept
       /\ (idx > 1 /\ IsLibraryFlag(args[idx - 1])) =>
            /\ Kept
            /\ Len(ldflags) >= 1
            /\ ldflags[Len(ldflags)] = args[idx - 1]]_vars

\* C2 amended: every "-l"/"-L" is kept, and the argument after a "-l"/"-L"
\* that is not itself scanned as the value of the flag before it is added to
\* the output right behind that flag, whatever the argument is.
C2_FlagKeepsItsValue ==
  [][InLoop =>
       /\ IsLibraryFlag(args[idx]) => Kept
       /\ (idx > 1 /\ IsLibraryFlag(args[idx - 1]) /\ ~IsFlagValue(args, idx - 1)) =>
            /\ Kept
            /\ Len(ldflags) >= 1
            /\ ldflags[Len(ldflags)] = args[idx - 1]]_vars

C2_Witness ==
  /\ Filtered
  /\ args = <<ArgFooO, FlagSmallL, ArgFooO>>
  /\ ldflags = <<FlagSmallL, ArgFooO>>

\* ---------------------------------------------------------------------- C3
\* C3 as stated: a ".lib" argument not starting with "msvcrt" is always kept
\* and one starting with "msvcrt" is always dropped, at any position.
C3_MsvcrtLibAlwaysDropped ==
  [][(InLoop /\ EndsWith(args[idx], SufLib)) =>
       IF StartsWith(args[idx], PreMsvcrt) THEN Dropped ELSE Kept]_vars

\* C3 amended: a ".lib" argument not starting with "msvcrt" is always kept;
\* one starting with "msvcrt" is dropped unless it is scanned as the value of
\* the "-l"/"-L" before it, in which case it is kept.
C3_MsvcrtLibDroppedUnlessFlagValue ==
  [][(InLoop /\ EndsWith(args[idx], SufLib)) =>
       IF StartsWith(args[idx], PreMsvcrt) /\ ~IsFlagValue(args, idx)
         THEN Dropped ELSE Kept]_vars

C3_Witness ==
  /\ Filtered
  /\ args = <<ArgWs2Lib, ArgMsvcrtLib>>
  /\ ldflags = <<ArgWs2Lib>>

\* ---------------------------------------------------------------------- C6
\* C6 as stated: an argument ending with ".crate.allocator.rcgu.o" that is
\* not scanned as a flag value is dropped.
C6_AllocatorObjectDropped ==
  [][(InLoop /\ EndsWith(args[idx], SufAllocator) /\ ~IsFlagValue(args, idx))
       => Dropped]_vars

\* C6 amended: an argument ending with ".crate.allocator.rcgu.o" that is not
\* scanned as a flag value is kept (as is one that is a flag value).
C6_AllocatorObjectKept ==
  [][(InLoop /\ EndsWith(args[idx], SufAllocator)) => Kept]_vars

C6_Witness ==
  /\ Filtered
  /\ args = <<ArgAllocator, ArgFooO>>
  /\ ldflags = <<ArgAllocator>>

\* ---------------------------------------------------------------------- C7
\* C7: the filtered flag list is a subsequence of the arguments scanned so
\* far: unmodified elements of the raw list, in the same order, each position
\* used at most once.
C7_OutputIsSubsequence ==
  IsSubsequence(ldflags, SubSeq(args, 1, idx - 1))

C7_Witness ==
  /\ Filtered
  /\ idx = Len(args) + 1
  /\ args = <<StartGroup, ArgFooO, EndGroup>>
  /\ ldflags = <<StartGroup, EndGroup>>

\* --------------------------------------------------------------------- C10
\* C10: running the filter on the filtered flag list gives it back unchanged.
C10_FilterIdempotent ==
  Filtered => Filter(ldflags) = ldflags

C10_Witness ==
  /\ Filtered
  /\ args = <<FlagBigL, FlagSmallL, ArgMsvcrtLib>>
  /\ ldflags = <<FlagBigL, FlagSmallL>>
  /\ Filter(ldflags) = ldflags

\* ---------------------------------------------------------------------- C4
\* C4 as stated: the temp file is unlinked at most once and only after rustc
\* has finished (or failed to start); when an Orchestrator run that created
\* the temp file has ended, however it ended, the file is gone, its
\* descriptor is closed, and it was unlinked once.
C4_TempFileAlwaysGone ==
  /\ unlinks <= 1
  /\ unlinks = 1 => RustcFinished
  /\ (mode = "Orchestrator" /\ pc = "done" /\ raised # "setup") =>
       ~file_exists /\ ~fd_open /\ unlinks = 1

\* ---------------------------------------------------------------------- C5
\* C5 as stated: once rustc has failed to start or exited nonzero, the run
\* never reads the file, never filters, writes nothing to standard output and
\* ends in failure; standard output is written only when rustc exited with
\* zero.
C5_FailureIsAllOrNothing ==
  /\ rustc \in {"launch_failed", "exit_nonzero"} =>
       /\ pc \notin {"read", "filter"}
       /\ args = << >> /\ ldflags = << >> /\ idx = 1
       /\ stdout = EmptyStr
       /\ outcome # "success"
       /\ pc = "done" => outcome = "failure"
  /\ stdout # EmptyStr => rustc = "exit_zero"

\* ---------------------------------------------------------------------- C8
\* C8 as stated: every Orchestrator run spawns exactly one rustc subprocess;
\* reading, cleanup, filtering and printing happen only after it has run to
\* completion; filtering and printing happen only after the read and after
\* the file has been closed and deleted.  A Capture run spawns nothing and
\* prints nothing.
C8_ExactlyOneSubprocess ==
  /\ spawns <= 1
  /\ (mode = "Orchestrator" /\ pc \notin {"entry", "spawn"}) => spawns = 1
  /\ pc \in {"read", "close", "unlink", "filter"} =>
       rustc \in {"exit_zero", "exit_nonzero"}
  /\ (mode = "Orchestrator" /\ pc = "done") =>
       rustc \in {"exit_zero", "exit_nonzero"}
  /\ args # << >> => rustc = "exit_zero"
  /\ (pc = "filter" \/ stdout # EmptyStr) =>
       /\ args # << >>
       /\ ~fd_open /\ ~file_exists /\ unlinks = 1
  /\ mode = "Capture" => spawns = 0 /\ rustc = "none" /\ stdout = EmptyStr

\* C8 amended: a run spawns at most one rustc subprocess: exactly one before
\* it waits, reads, filters, prints or succeeds as Orchestrator, and none
\* when the setup or the launch of rustc raises.  The read, the loop, the
\* write and a successful end happen only after the subprocess has run to
\* completion, whatever its exit status; the loop and the write happen only
\* after the read and after the file has been closed and deleted.  The
\* cleanup runs while the subprocess is still running only with an exception
\* pending and nothing read, and such a run does not succeed.  A Capture run
\* spawns nothing and prints nothing.
C8_AtMostOneSubprocessThenSequential ==
  /\ spawns <= 1
  /\ spawns = 1 <=> rustc \in {"running", "exit_zero", "exit_nonzero"}
  /\ (pc \in {"wait", "read", "filter"} \/ args # << >> \/ stdout # EmptyStr
        \/ (mode = "Orchestrator" /\ outcome = "success")) => spawns = 1
  /\ (raised = "setup" \/ rustc = "launch_failed") =>
       spawns = 0 /\ outcome # "success"
  /\ (pc \in {"read", "filter"} \/ args # << >> \/ stdout # EmptyStr
        \/ (mode = "Orchestrator" /\ outcome = "success")) =>
       rustc \in {"exit_zero", "exit_nonzero"}
  /\ (rustc = "running" /\ pc \in {"close", "unlink", "done"}) =>
       raised # "none" /\ args = << >> /\ outcome # "success"
  /\ (pc = "filter" \/ stdout # EmptyStr) =>
       /\ args # << >>
       /\ ~fd_open /\ ~file_exists /\ unlinks = 1
  /\ mode = "Capture" => spawns = 0 /\ rustc = "none" /\ stdout = EmptyStr

C8_Witness ==
  /\ Filtered
  /\ spawns = 1 /\ linker_calls = 1
  /\ args = <<FlagBigL, ArgFooO>>
  /\ stdout = FlagBigL \o <<NL>> \o ArgFooO

\* ---------------------------------------------------------------------- C9
\* C9 as stated: when rustc exited with zero and the file read back is empty,
\* the raw argument list is the single empty string, nothing is kept, and the
\* run succeeds having written the empty string.
C9_EmptyArgsfileSucceeds ==
  /\ (pc \in {"close", "unlink"} /\ raised = "none" /\ content = EmptyStr) =>
       args = <<EmptyStr>>
  /\ (rustc = "exit_zero" /\ args = <<EmptyStr>>) =>
       /\ ldflags = << >>
       /\ pc = "done" => outcome = "success" /\ stdout = EmptyStr

====
